---------------------------- MODULE Spec2Model ----------------------------
(***************************************************************************)
(* The Mangyomi installer (installer/src-tauri/src/main.rs): the mode      *)
(* dispatcher main(), its silent install branch, and the interactive       *)
(* install_app command with its extraction worker, shortcut registration   *)
(* and version recording.                                                  *)
(*                                                                         *)
(* Strings that the code inspects character by character (zip entry names) *)
(* are sequences of tokens, "/" being the separator.  A path is the        *)
(* sequence of its components from the root.  Option<T> is a sequence of   *)
(* length 0 (None) or 1 (Some).  Calls into the system and the libraries   *)
(* (create_dir_all, decompress_file, spawn, emit, ...) succeed or fail as   *)
(* the environment decides.  The diagnostics log written by debug_log is   *)
(* not part of the state.                                                  *)
(***************************************************************************)
EXTENDS Integers, Sequences, FiniteSets, TLC

\* ------------------------------------------------------------------ bounds

\* longest argument vector explored
MaxArgs == 3
\* most entries in a zip payload
MaxEntries == 2
\* most install_app invocations by the front end in one process
MaxCalls == 1

\* ------------------------------------------------------- program constants

\* main.rs:61  `size > 1000`
MinPayloadSize == 1000
\* main.rs:292  exit status of a process whose main thread panicked (`expect`)
PanicExit == 101

None == << >>
Some(x) == << x >>

\* ------------------------------------------------------------------- paths

ExeName == "Mangyomi.exe"
VersionTxt == "version.txt"

\* PathBuf::from(s) for an install path given as one string: one component
PathOf(s) == << s >>

RECURSIVE Normalize(_)
\* what the operating system makes of a path: ".." steps to the parent
Normalize(p) ==
    IF p = << >> THEN << >>
    ELSE LET front == Normalize(SubSeq(p, 1, Len(p) - 1))
             last == p[Len(p)]
         IN  IF last = ".."
             THEN IF front = << >> THEN << >> ELSE SubSeq(front, 1, Len(front) - 1)
             ELSE Append(front, last)

\* p lies strictly inside directory d
IsInside(p, d) ==
    /\ Len(Normalize(p)) > Len(Normalize(d))
    /\ SubSeq(Normalize(p), 1, Len(Normalize(d))) = Normalize(d)

\* the directory itself and every ancestor of it
Ancestors(p) == { SubSeq(p, 1, k) : k \in 1..Len(p) }

\* Path::exists (the root always does)
Exists(files, p) == Normalize(p) = << >> \/ Normalize(p) \in files

\* the effect of a successful std::fs::create_dir_all(p)
MkdirAll(files, p) == files \cup Ancestors(Normalize(p))

\* Path::parent
Parent(p) == IF p = << >> THEN << >> ELSE SubSeq(p, 1, Len(p) - 1)

\* --------------------------------------------------------------- arguments

Tokens == { "--silent", "--install-path", "--sfx-path", "Out" }

RECURSIVE SeqsUpTo(_, _)
SeqsUpTo(S, n) ==
    IF n = 0 THEN { << >> }
    ELSE LET shorter == SeqsUpTo(S, n - 1)
         IN  shorter \cup { Append(s, x) : s \in { t \in shorter : Len(t) = n - 1 }, x \in S }

ArgLists == SeqsUpTo(Tokens, MaxArgs)

\* Vec::get(i + 1), 1-based here
Get(a, i) == IF i >= 1 /\ i <= Len(a) THEN Some(a[i]) ELSE None

RECURSIVE SfxLoop(_, _, _)
\* main.rs:247-256  the loop that records --sfx-path
SfxLoop(a, i, sfx) ==
    IF i > Len(a) THEN sfx
    ELSE SfxLoop(a, i + 1,
                 IF a[i] = "--sfx-path" /\ Get(a, i + 1) # None
                 THEN Get(a, i + 1) ELSE sfx)

RECURSIVE SilentLoopSkipValue(_, _, _)
\* mutant of SilentLoop: the value after --install-path is consumed and not
\* looked at as a flag
SilentLoopSkipValue(a, i, acc) ==
    IF i > Len(a) THEN acc
    ELSE IF a[i] = "--install-path" /\ Get(a, i + 1) # None
         THEN SilentLoopSkipValue(a, i + 2, [acc EXCEPT !.install_path = Get(a, i + 1)])
         ELSE SilentLoopSkipValue(a, i + 1,
                 IF a[i] = "--silent" THEN [acc EXCEPT !.silent_mode = TRUE] ELSE acc)

RECURSIVE SilentLoopLoose(_, _, _)
\* mutant of SilentLoop: --install-path counts even when nothing follows it
SilentLoopLoose(a, i, acc) ==
    IF i > Len(a) THEN acc
    ELSE SilentLoopLoose(a, i + 1,
            IF a[i] = "--silent"
            THEN [acc EXCEPT !.silent_mode = TRUE]
            ELSE IF a[i] = "--install-path"
                 THEN [acc EXCEPT !.install_path =
                          IF Get(a, i + 1) # None THEN Get(a, i + 1) ELSE Some("")]
                 ELSE acc)

RECURSIVE SilentLoop(_, _, _)
\* main.rs:259-272  the loop that reads --silent and --install-path
SilentLoop(a, i, acc) ==
    IF i > Len(a) THEN acc
    ELSE SilentLoop(a, i + 1,
            IF a[i] = "--silent"
            THEN [acc EXCEPT !.silent_mode = TRUE]
            ELSE IF a[i] = "--install-path"
                 THEN IF Get(a, i + 1) # None
                      THEN [acc EXCEPT !.install_path = Get(a, i + 1)]
                      ELSE acc
                 ELSE acc)

ParseArgs(a) == SilentLoop(a, 1, [silent_mode |-> FALSE, install_path |-> None])

\* ----------------------------------------------------------------- payloads

\* resources/app.7z: absent, or a file of some size holding some files
\* (paths relative to the destination)
Payloads7z ==
    { None,
      Some([size |-> MinPayloadSize, files |-> { << ExeName >> }]),
      Some([size |-> MinPayloadSize + 1, files |-> {}]),
      Some([size |-> MinPayloadSize + 1, files |-> { << ExeName >>, << VersionTxt >> }]) }

\* a zip entry name, token by token
ZipNames ==
    { << ExeName >>, << "sub", "/" >>,
      << "..", "/", "evil.dll" >>, << "/", "tmp", "/", "evil.dll" >> }

NoRepeat(a) == \A i, j \in 1..Len(a) : a[i] = a[j] => i = j

\* resources/app.zip: absent, not a zip archive, or a list of distinct entry names
PayloadsZip ==
    { None, Some([valid |-> FALSE, entries |-> << >>]) }
    \cup { Some([valid |-> TRUE, entries |-> z]) :
             z \in { a \in SeqsUpTo(ZipNames, MaxEntries) : NoRepeat(a) } }

\* the components of a name, as PathBuf splits it at the separators
Components(name) == SelectSeq(name, LAMBDA t : t # "/")
IsAbsolute(name) == name # << >> /\ name[1] = "/"
\* str::ends_with('/'), which is also what ZipFile::is_dir looks at
EndsWithSlash(name) == name # << >> /\ name[Len(name)] = "/"

\* PathBuf::join: an absolute argument replaces the base
Join(base, name) == IF IsAbsolute(name) THEN Components(name) ELSE base \o Components(name)

\* contents of version.txt as built, and str::trim
VersionFile == << "1.0.0", "\n" >>
IsSpace(c) == c \in { " ", "\n" }
RECURSIVE TrimEnd(_)
TrimEnd(s) == IF s # << >> /\ IsSpace(s[Len(s)]) THEN TrimEnd(SubSeq(s, 1, Len(s) - 1)) ELSE s
RECURSIVE TrimStart(_)
TrimStart(s) == IF s # << >> /\ IsSpace(s[1]) THEN TrimStart(Tail(s)) ELSE s
Trim(s) == TrimStart(TrimEnd(s))

\* ------------------------------------------------------------------- state

VARIABLES
    args,          \* std::env::args()
    mpc,           \* position of main()
    SFX_PATH,      \* the global Mutex<Option<String>>
    silent_mode,   \* main's local
    install_path,  \* main's local Option<String>
    exitCode,      \* None while the process runs, Some(code) once it ended
    mainOps,       \* the calls main() has made to the system, in order
    fs,            \* the paths that exist (normalized)
    spawned,       \* executables this process started
    payload7z,     \* resources/app.7z
    payloadZip,    \* resources/app.zip
    appdata,       \* whether APPDATA is set
    version,       \* the version last read from version.txt
    calls,         \* install_app invocations so far
    ipc,           \* position of the install_app call in flight
    callPath,      \* install_app's install_path argument
    resource,      \* install_app's (resource_path, is_7z)
    events,        \* the progress events this call has emitted
    delivered,     \* how many of them reached the front end
    result,        \* what the call returned
    wpc,           \* position of the extraction worker
    wres,          \* the worker closure's result
    zidx,          \* extract_zip's loop index
    zipWrites,     \* the paths extract_zip created or wrote in this call
    shortcutOps,   \* what create_shortcuts did in this call, in order
    cacheRes,      \* what cache_for_differential_updates returned
    launchRes      \* what the last launch_app call returned

mainVars == << args, mpc, SFX_PATH, silent_mode, install_path, exitCode, mainOps >>
envVars == << payload7z, payloadZip, appdata >>
callVars == << calls, ipc, callPath, resource, events, delivered, result,
               wpc, wres, zidx, zipWrites, shortcutOps, cacheRes, launchRes >>
vars == << mainVars, fs, spawned, envVars, version, callVars >>

Running == exitCode = None

\* one call main() made, and whether it succeeded (for payload_exists: the answer)
Op(name, ok) == [op |-> name, ok |-> ok]

\* Result<(), String>: the error is the message, piece by piece
Ok == [ok |-> TRUE, err |-> << >>]
Err(m) == [ok |-> FALSE, err |-> m]

\* std::process::exit(code), or a panic of the main thread
Exit(code) == /\ exitCode' = Some(code)
              /\ mpc' = "exited"

\* main.rs:185-193 and 216-224  the version read from <install path>/version.txt
ReadVersion(files, dir, readable) ==
    IF Exists(files, Append(dir, VersionTxt))
    THEN IF readable THEN Trim(VersionFile) ELSE << "unknown" >>
    ELSE << "unknown" >>

\* what sevenz_rust::decompress_file leaves in dir: every file on success,
\* some of them on failure
Decompressed(files, dir, names) ==
    files \cup UNION { Ancestors(Normalize(dir \o n)) : n \in names }

\* -------------------------------------------------------------------- main

\* main.rs:244-276 and 322-324  parse the arguments and choose the branch
ParseArguments ==
    /\ Running /\ mpc = "start"
    /\ SFX_PATH' = SfxLoop(args, 1, SFX_PATH)
    /\ silent_mode' = ParseArgs(args).silent_mode
    /\ install_path' = ParseArgs(args).install_path
    /\ mpc' = IF ParseArgs(args).silent_mode /\ ParseArgs(args).install_path # None
              THEN "sleep" ELSE "run_shell"
    /\ UNCHANGED << args, exitCode, mainOps, fs, spawned, envVars, version, callVars >>

\* mutant of SilentWait: the branch goes on without sleeping
SilentNoWait ==
    /\ Running /\ mpc = "sleep"
    /\ mpc' = "create_dir"
    /\ UNCHANGED << args, SFX_PATH, silent_mode, install_path, exitCode, mainOps, fs, spawned,
                    envVars, version, callVars >>

\* main.rs:279-283  std::thread::sleep(3 s)
SilentWait ==
    /\ Running /\ mpc = "sleep"
    /\ mainOps' = Append(mainOps, Op("sleep", TRUE))
    /\ mpc' = "create_dir"
    /\ UNCHANGED << args, SFX_PATH, silent_mode, install_path, exitCode, fs, spawned, envVars, version, callVars >>

\* main.rs:285-289  create_dir_all(&path), exit(1) on failure
\* mutant of SilentCreateDir: a failed creation is tried again after
\* another wait
SilentCreateDirRetry ==
    /\ Running /\ mpc = "create_dir"
    /\ \E ok \in BOOLEAN :
         /\ mainOps' = Append(mainOps, Op("create_dir_all", ok))
         /\ IF ok
            THEN /\ fs' = MkdirAll(fs, PathOf(install_path[1]))
                 /\ mpc' = "find_payload"
            ELSE /\ mpc' = "sleep"
                 /\ UNCHANGED fs
    /\ UNCHANGED << args, SFX_PATH, silent_mode, install_path, exitCode, spawned, envVars, version, callVars >>

SilentCreateDir ==
    /\ Running /\ mpc = "create_dir"
    /\ \E ok \in BOOLEAN :
         /\ mainOps' = Append(mainOps, Op("create_dir_all", ok))
         /\ IF ok
            THEN /\ fs' = MkdirAll(fs, PathOf(install_path[1]))
                 /\ mpc' = "find_payload"
                 /\ UNCHANGED exitCode
            ELSE /\ Exit(1)
                 /\ UNCHANGED fs
    /\ UNCHANGED << args, SFX_PATH, silent_mode, install_path, spawned, envVars, version, callVars >>

\* main.rs:291-296 and 315-318  locate resources/app.7z beside the executable
SilentFindPayload ==
    /\ Running /\ mpc = "find_payload"
    /\ \E exeKnown \in BOOLEAN :
         IF ~exeKnown
         THEN /\ Exit(PanicExit)
              /\ mainOps' = Append(mainOps, Op("current_exe", FALSE))
         ELSE /\ mainOps' = mainOps \o << Op("current_exe", TRUE),
                                          Op("payload_exists", payload7z # None) >>
              /\ IF payload7z # None
                 THEN mpc' = "extract" /\ UNCHANGED exitCode
                 ELSE Exit(1)
    /\ UNCHANGED << args, SFX_PATH, silent_mode, install_path, fs, spawned, envVars, version, callVars >>

\* main.rs:297-302  decompress_file(&payload_path, &path), exit(1) on failure
SilentExtract ==
    /\ Running /\ mpc = "extract"
    /\ \E ok \in BOOLEAN, part \in SUBSET payload7z[1].files :
         /\ ok => part = payload7z[1].files
         /\ mainOps' = Append(mainOps, Op("decompress", ok))
         /\ fs' = Decompressed(fs, PathOf(install_path[1]), part)
         /\ IF ok
            THEN mpc' = "cache" /\ UNCHANGED exitCode
            ELSE Exit(1)
    /\ UNCHANGED << args, SFX_PATH, silent_mode, install_path, spawned, envVars, version, callVars >>

\* mutant of SilentCache: the silent recorder sets up the update cache
\* directory as the interactive one does
SilentCacheWithDir ==
    /\ Running /\ mpc = "cache"
    /\ \E readable \in BOOLEAN :
         version' = ReadVersion(fs, PathOf(install_path[1]), readable)
    /\ fs' = MkdirAll(fs, << "AppData", "mangyomi", "update-cache" >>)
    /\ mainOps' = Append(mainOps, Op("cache", TRUE))
    /\ mpc' = "launch"
    /\ UNCHANGED << args, SFX_PATH, silent_mode, install_path, exitCode, spawned, envVars, callVars >>

\* main.rs:304-306 and 209-233  cache_for_silent_install
SilentCache ==
    /\ Running /\ mpc = "cache"
    /\ \E readable \in BOOLEAN :
         version' = ReadVersion(fs, PathOf(install_path[1]), readable)
    /\ mainOps' = Append(mainOps, Op("cache", TRUE))
    /\ mpc' = "launch"
    /\ UNCHANGED << args, SFX_PATH, silent_mode, install_path, exitCode, fs, spawned, envVars, callVars >>

\* mutant of SilentLaunch: a failed launch ends the process with exit(1)
SilentLaunchStrict ==
    /\ Running /\ mpc = "launch"
    /\ IF Exists(fs, Append(PathOf(install_path[1]), ExeName))
       THEN \E ok \in BOOLEAN :
              /\ mainOps' = Append(mainOps, Op("spawn", ok))
              /\ spawned' = IF ok THEN spawned \cup { Append(PathOf(install_path[1]), ExeName) }
                            ELSE spawned
              /\ Exit(IF ok THEN 0 ELSE 1)
       ELSE Exit(0) /\ UNCHANGED << mainOps, spawned >>
    /\ UNCHANGED << args, SFX_PATH, silent_mode, install_path, fs, envVars, version, callVars >>

\* main.rs:308-314 and 320  launch Mangyomi.exe if it exists, then exit(0)
SilentLaunch ==
    /\ Running /\ mpc = "launch"
    /\ IF Exists(fs, Append(PathOf(install_path[1]), ExeName))
       THEN \E ok \in BOOLEAN :
              /\ mainOps' = Append(mainOps, Op("spawn", ok))
              /\ spawned' = IF ok THEN spawned \cup { Append(PathOf(install_path[1]), ExeName) }
                            ELSE spawned
       ELSE UNCHANGED << mainOps, spawned >>
    /\ Exit(0)
    /\ UNCHANGED << args, SFX_PATH, silent_mode, install_path, fs, envVars, version, callVars >>

\* main.rs:324-329  tauri::Builder ... .run(), `expect` on its error
RunShell ==
    /\ Running /\ mpc = "run_shell"
    /\ \E ok \in BOOLEAN :
         /\ mainOps' = Append(mainOps, Op("run_shell", ok))
         /\ IF ok THEN mpc' = "gui" /\ UNCHANGED exitCode
            ELSE Exit(PanicExit)
    /\ UNCHANGED << args, SFX_PATH, silent_mode, install_path, fs, spawned, envVars, version, callVars >>

\* ------------------------------------------------------------- install_app

InstallPaths == { "Out" }
Path7z == "resources/app.7z"
PathZip == "resources/app.zip"
NotFound == << "Installer payload not found (app.7z or app.zip)" >>

\* the parts of main's state the commands leave alone
mainFrame == << args, mpc, SFX_PATH, silent_mode, install_path, mainOps >>

InGui == Running /\ mpc = "gui"

\* mutant of Emit: the event goes out twice
EmitTwice(status, percent, reached) ==
    /\ events' = events \o << [status |-> status, percent |-> percent],
                              [status |-> status, percent |-> percent] >>
    /\ delivered' = IF reached THEN delivered + 2 ELSE delivered

\* AppHandle::emit(...).ok(): the event is emitted; whether it reaches the
\* front end is not looked at
Emit(status, percent, reached) ==
    /\ events' = Append(events, [status |-> status, percent |-> percent])
    /\ delivered' = IF reached THEN delivered + 1 ELSE delivered

\* main.rs:59-64  (resource_path, is_7z), or the payload-not-found error;
\* app_7z and app_zip are the Options the two resolve calls gave
SelectPayloadAtLeast(app_7z, app_zip, file7z) ==
    LET size == IF file7z = None THEN 0 ELSE file7z[1].size
        fallback == IF app_zip = None
                    THEN [res |-> Err(<< "Installer payload not found (app.7z or app.zip)" >>), sel |-> None]
                    ELSE [res |-> Ok, sel |-> Some([path |-> app_zip[1], is_7z |-> FALSE])]
    IN  IF app_7z # None
        THEN IF file7z # None /\ size >= MinPayloadSize
             THEN [res |-> Ok, sel |-> Some([path |-> app_7z[1], is_7z |-> TRUE])]
             ELSE fallback
        ELSE fallback

SelectPayload(app_7z, app_zip, file7z) ==
    LET size == IF file7z = None THEN 0 ELSE file7z[1].size
        fallback == IF app_zip = None
                    THEN [res |-> Err(NotFound), sel |-> None]
                    ELSE [res |-> Ok, sel |-> Some([path |-> app_zip[1], is_7z |-> FALSE])]
    IN  IF app_7z # None
        THEN IF file7z # None /\ size > MinPayloadSize
             THEN [res |-> Ok, sel |-> Some([path |-> app_7z[1], is_7z |-> TRUE])]
             ELSE fallback
        ELSE fallback

\* the front end invokes install_app(install_path)
InvokeInstall ==
    /\ InGui /\ ipc \in { "idle", "returned" } /\ calls < MaxCalls
    /\ \E p \in InstallPaths : callPath' = p
    /\ calls' = calls + 1
    /\ ipc' = "discover"
    /\ resource' = None
    /\ events' = << >> /\ delivered' = 0
    /\ result' = None
    /\ wpc' = "none" /\ wres' = Ok /\ zidx' = 0
    /\ zipWrites' = {}
    /\ shortcutOps' = << >>
    /\ cacheRes' = None
    /\ launchRes' = None
    /\ UNCHANGED << mainFrame, exitCode, fs, spawned, envVars, version >>

\* PathResolver::resolve(name, BaseDirectory::Resource).ok(): the resource
\* directory joined with the name, whether or not such a file exists; None
\* only when the resource directory itself cannot be determined
Resolve(name, dirKnown) == IF dirKnown THEN Some(name) ELSE None

\* main.rs:56-66  resolve both resources and select the payload
Discover ==
    /\ InGui /\ ipc = "discover"
    /\ \E dirKnown \in BOOLEAN :
         LET d == SelectPayload(Resolve(Path7z, dirKnown), Resolve(PathZip, dirKnown), payload7z)
         IN  IF d.res.ok
             THEN resource' = d.sel /\ ipc' = "create_dir" /\ UNCHANGED result
             ELSE result' = Some(d.res) /\ ipc' = "returned" /\ UNCHANGED resource
    /\ UNCHANGED << mainFrame, exitCode, fs, spawned, envVars, version, calls, callPath,
                    events, delivered, wpc, wres, zidx, zipWrites, shortcutOps, cacheRes, launchRes >>

\* mutant of InstallCreateDir: create_dir instead of create_dir_all, which
\* fails on a directory that exists
InstallCreateDirOnce ==
    /\ InGui /\ ipc = "create_dir"
    /\ \E ok \in BOOLEAN :
         /\ ok => ~Exists(fs, PathOf(callPath))
         /\ IF ok
            THEN fs' = MkdirAll(fs, PathOf(callPath)) /\ ipc' = "emit_extracting" /\ UNCHANGED result
            ELSE result' = Some(Err(<< "io" >>)) /\ ipc' = "returned" /\ UNCHANGED fs
    /\ UNCHANGED << mainFrame, exitCode, spawned, envVars, version, calls, callPath, resource,
                    events, delivered, wpc, wres, zidx, zipWrites, shortcutOps, cacheRes, launchRes >>

\* main.rs:68-69  create_dir_all(&install_path)?
InstallCreateDir ==
    /\ InGui /\ ipc = "create_dir"
    /\ \E ok \in BOOLEAN :
         IF ok
         THEN fs' = MkdirAll(fs, PathOf(callPath)) /\ ipc' = "emit_extracting" /\ UNCHANGED result
         ELSE result' = Some(Err(<< "io" >>)) /\ ipc' = "returned" /\ UNCHANGED fs
    /\ UNCHANGED << mainFrame, exitCode, spawned, envVars, version, calls, callPath, resource,
                    events, delivered, wpc, wres, zidx, zipWrites, shortcutOps, cacheRes, launchRes >>

\* mutant of EmitExtracting: an event that cannot be delivered ends the
\* call with an error (`?` in place of `.ok()`)
EmitExtractingStrict ==
    /\ InGui /\ ipc = "emit_extracting"
    /\ \E reached \in BOOLEAN :
         /\ Emit("Extracting files...", 10, reached)
         /\ IF reached
            THEN ipc' = "spawn" /\ UNCHANGED result
            ELSE ipc' = "returned" /\ result' = Some(Err(<< "emit" >>))
    /\ UNCHANGED << mainFrame, exitCode, fs, spawned, envVars, version, calls, callPath, resource,
                    wpc, wres, zidx, zipWrites, shortcutOps, cacheRes, launchRes >>

\* main.rs:72  emit "Extracting files..." 10
EmitExtracting ==
    /\ InGui /\ ipc = "emit_extracting"
    /\ \E reached \in BOOLEAN : Emit("Extracting files...", 10, reached)
    /\ ipc' = "spawn"
    /\ UNCHANGED << mainFrame, exitCode, fs, spawned, envVars, version, calls, callPath, resource,
                    result, wpc, wres, zidx, zipWrites, shortcutOps, cacheRes, launchRes >>

\* main.rs:74-78  spawn_blocking(closure), then await it
SpawnWorker ==
    /\ InGui /\ ipc = "spawn"
    /\ wpc' = "run"
    /\ ipc' = "await"
    /\ UNCHANGED << mainFrame, exitCode, fs, spawned, envVars, version, calls, callPath, resource,
                    events, delivered, result, wres, zidx, zipWrites, shortcutOps, cacheRes, launchRes >>

\* main.rs:79-81  the worker: decompress_file(&res_clone, &path_clone)
Worker7z ==
    /\ InGui /\ wpc = "run" /\ resource[1].is_7z
    /\ \E ok \in BOOLEAN, part \in SUBSET payload7z[1].files :
         /\ ok => part = payload7z[1].files
         /\ fs' = Decompressed(fs, PathOf(callPath), part)
         /\ wres' = IF ok THEN Ok
                    ELSE Err(<< "7z extraction failed for", resource[1].path >>)
    /\ wpc' = "finished"
    /\ UNCHANGED << mainFrame, exitCode, spawned, envVars, version, calls, ipc, callPath, resource,
                    events, delivered, result, zidx, zipWrites, shortcutOps, cacheRes, launchRes >>

\* main.rs:108-123  the ways one zip entry can end
EntryOutcomes(files, dest, name) ==
    { "ok", "index_err" }
    \cup (IF EndsWithSlash(name) \/ ~Exists(files, Parent(Join(dest, name)))
          THEN { "mkdir_err" } ELSE {})
    \cup (IF EndsWithSlash(name) THEN {} ELSE { "create_err", "copy_err" })

\* main.rs:108-123  one iteration of extract_zip's loop: the files after it
ExtractEntry(files, dest, name, o) ==
    LET outpath == Join(dest, name)
        withParent == IF Exists(files, Parent(outpath)) THEN files
                      ELSE MkdirAll(files, Parent(outpath))
    IN  IF o \in { "index_err", "mkdir_err" } THEN files
        ELSE IF EndsWithSlash(name) THEN MkdirAll(files, outpath)
        ELSE IF o = "create_err" THEN withParent
        ELSE withParent \cup { Normalize(outpath) }

\* main.rs:108-123  the paths that iteration created or wrote
EntryWrites(files, dest, name, o) ==
    (ExtractEntry(files, dest, name, o) \ files)
    \cup (IF ~EndsWithSlash(name) /\ o \in { "ok", "copy_err" }
          THEN { Normalize(Join(dest, name)) } ELSE {})

\* "<kind> extraction failed for <archive>: <cause>"
ZipErr(path, cause) == Err(<< "Zip extraction failed for", path, cause >>)

\* main.rs:83-84 and 103-105  the worker: open the archive and read its directory
WorkerZipOpen ==
    /\ InGui /\ wpc = "run" /\ ~resource[1].is_7z
    /\ \E opened \in BOOLEAN :
         /\ opened => payloadZip # None
         /\ IF ~opened
            THEN /\ wres' = ZipErr(resource[1].path, "Failed to open zip file at")
                 /\ wpc' = "finished" /\ UNCHANGED zidx
            ELSE IF ~payloadZip[1].valid
            THEN /\ wres' = ZipErr(resource[1].path, "invalid Zip archive")
                 /\ wpc' = "finished" /\ UNCHANGED zidx
            ELSE IF payloadZip[1].entries = << >>
            THEN /\ wres' = Ok
                 /\ wpc' = "finished" /\ UNCHANGED zidx
            ELSE /\ zidx' = 1
                 /\ wpc' = "entries" /\ UNCHANGED wres
    /\ UNCHANGED << mainFrame, exitCode, fs, spawned, envVars, version, calls, ipc, callPath, resource,
                    events, delivered, result, zipWrites, shortcutOps, cacheRes, launchRes >>

\* main.rs:107-125  the worker: entry zidx of the archive
WorkerZipEntry ==
    /\ InGui /\ wpc = "entries"
    /\ LET name == payloadZip[1].entries[zidx]
           dest == PathOf(callPath)
       IN  \E o \in EntryOutcomes(fs, dest, name) :
             /\ fs' = ExtractEntry(fs, dest, name, o)
             /\ zipWrites' = zipWrites \cup EntryWrites(fs, dest, name, o)
             /\ IF o # "ok"
                THEN /\ wres' = ZipErr(resource[1].path, o)
                     /\ wpc' = "finished" /\ UNCHANGED zidx
                ELSE IF zidx = Len(payloadZip[1].entries)
                THEN /\ wres' = Ok
                     /\ wpc' = "finished" /\ UNCHANGED zidx
                ELSE /\ zidx' = zidx + 1
                     /\ UNCHANGED << wres, wpc >>
    /\ UNCHANGED << mainFrame, exitCode, spawned, envVars, version, calls, ipc, callPath, resource,
                    events, delivered, result, shortcutOps, cacheRes, launchRes >>

\* the worker closure panics (the JoinError of main.rs:86)
WorkerPanic ==
    /\ InGui /\ wpc \in { "run", "entries" }
    /\ wpc' = "panicked"
    /\ UNCHANGED << mainFrame, exitCode, fs, spawned, envVars, version, calls, ipc, callPath, resource,
                    events, delivered, result, wres, zidx, zipWrites, shortcutOps, cacheRes, launchRes >>

\* mutant of Join86: the worker's own result is dropped (one `?` only)
Join86Lenient ==
    /\ InGui /\ ipc = "await" /\ wpc \in { "finished", "panicked" }
    /\ IF wpc = "panicked"
       THEN result' = Some(Err(<< "task panicked" >>)) /\ ipc' = "returned"
       ELSE ipc' = "emit_shortcuts" /\ UNCHANGED result
    /\ wpc' = IF wpc = "panicked" THEN "panicked" ELSE "joined"
    /\ UNCHANGED << mainFrame, exitCode, fs, spawned, envVars, version, calls, callPath, resource,
                    events, delivered, wres, zidx, zipWrites, shortcutOps, cacheRes, launchRes >>

\* mutant of Join86: the handle is not awaited, install goes on while the
\* worker runs
Join86Early ==
    /\ InGui /\ ipc = "await" /\ wpc \in { "run", "entries", "finished", "panicked" }
    /\ IF wpc = "panicked"
       THEN result' = Some(Err(<< "task panicked" >>)) /\ ipc' = "returned"
       ELSE IF wpc = "finished" /\ ~wres.ok
       THEN result' = Some(wres) /\ ipc' = "returned"
       ELSE ipc' = "emit_shortcuts" /\ UNCHANGED result
    /\ wpc' = IF wpc = "finished" THEN "joined" ELSE wpc
    /\ UNCHANGED << mainFrame, exitCode, fs, spawned, envVars, version, calls, callPath, resource,
                    events, delivered, wres, zidx, zipWrites, shortcutOps, cacheRes, launchRes >>

\* main.rs:86  .await.map_err(..)??
Join86 ==
    /\ InGui /\ ipc = "await" /\ wpc \in { "finished", "panicked" }
    /\ IF wpc = "panicked"
       THEN result' = Some(Err(<< "task panicked" >>)) /\ ipc' = "returned"
       ELSE IF ~wres.ok
       THEN result' = Some(wres) /\ ipc' = "returned"
       ELSE ipc' = "emit_shortcuts" /\ UNCHANGED result
    /\ wpc' = IF wpc = "panicked" THEN "panicked" ELSE "joined"
    /\ UNCHANGED << mainFrame, exitCode, fs, spawned, envVars, version, calls, callPath, resource,
                    events, delivered, wres, zidx, zipWrites, shortcutOps, cacheRes, launchRes >>

\* main.rs:88  emit "Creating shortcuts..." 80
EmitShortcuts ==
    /\ InGui /\ ipc = "emit_shortcuts"
    /\ \E reached \in BOOLEAN : Emit("Creating shortcuts...", 80, reached)
    /\ ipc' = "shortcuts"
    /\ UNCHANGED << mainFrame, exitCode, fs, spawned, envVars, version, calls, callPath, resource,
                    result, wpc, wres, zidx, zipWrites, shortcutOps, cacheRes, launchRes >>

\* main.rs:135-138  the shortcut locations; USERPROFILE is taken to be set,
\* an unset APPDATA reads as the empty string
DesktopLnk == << "Users", "Desktop", "Mangyomi.lnk" >>
StartMenuDir(appd) ==
    (IF appd THEN << "AppData" >> ELSE << >>) \o << "Start Menu", "Programs", "Mangyomi" >>
StartMenuLnk(appd) == Append(StartMenuDir(appd), "Mangyomi.lnk")

\* how one create_lnk call can end: powershell could not be started; it ran
\* and saved the shortcut; it ran and the script failed
LnkOutcomes == { "spawn_failed", "saved", "not_saved" }

\* one create_lnk call: the shortcut asked for and how the call ended
LnkOp(lnk, o) == [op |-> "create_lnk", lnk |-> lnk, outcome |-> o]

\* main.rs:145-161  create_lnk: Err only when the process could not be run
CreateLnk(files, lnk, o) ==
    [res |-> IF o = "spawn_failed" THEN Err(<< "spawn", lnk >>) ELSE Ok,
     fs |-> IF o = "saved" THEN files \cup { lnk } ELSE files]

\* mutant of RegisterShortcuts: the check that the executable exists is missing
RegisterShortcutsUnchecked(files, ip, appd, mk, o1, o2) ==
    LET fs1 == IF mk THEN MkdirAll(files, StartMenuDir(appd)) ELSE files
        first == CreateLnk(fs1, DesktopLnk, o1)
        second == CreateLnk(first.fs, StartMenuLnk(appd), o2)
    IN  IF ~first.res.ok
        THEN [res |-> first.res, fs |-> first.fs,
              ops |-> << Op("create_dir_all", mk), LnkOp(DesktopLnk, o1) >>]
        ELSE [res |-> second.res, fs |-> second.fs,
              ops |-> << Op("create_dir_all", mk), LnkOp(DesktopLnk, o1),
                         LnkOp(StartMenuLnk(appd), o2) >>]

\* main.rs:129-167  create_shortcuts: its result, the files after it, what it did
RegisterShortcuts(files, ip, appd, mk, o1, o2) ==
    IF ~Exists(files, Append(PathOf(ip), ExeName))
    THEN [res |-> Ok, fs |-> files, ops |-> << >>]
    ELSE LET fs1 == IF mk THEN MkdirAll(files, StartMenuDir(appd)) ELSE files
             first == CreateLnk(fs1, DesktopLnk, o1)
             second == CreateLnk(first.fs, StartMenuLnk(appd), o2)
         IN  IF ~first.res.ok
             THEN [res |-> first.res, fs |-> first.fs,
                   ops |-> << Op("create_dir_all", mk), LnkOp(DesktopLnk, o1) >>]
             ELSE [res |-> second.res, fs |-> second.fs,
                   ops |-> << Op("create_dir_all", mk), LnkOp(DesktopLnk, o1),
                              LnkOp(StartMenuLnk(appd), o2) >>]

\* main.rs:90-91  create_shortcuts(&install_path).map_err(..)?
CreateShortcuts ==
    /\ InGui /\ ipc = "shortcuts"
    /\ \E mk \in BOOLEAN, o1 \in LnkOutcomes, o2 \in LnkOutcomes :
         LET r == RegisterShortcuts(fs, callPath, appdata, mk, o1, o2)
         IN  \* a shortcut cannot be saved into a directory that does not exist
             /\ StartMenuLnk(appdata) \in r.fs => Exists(r.fs, StartMenuDir(appdata))
             /\ fs' = r.fs
             /\ shortcutOps' = r.ops
             /\ IF r.res.ok
                THEN ipc' = "emit_updates" /\ UNCHANGED result
                ELSE /\ result' = Some(Err(<< "Shortcut creation failed" >> \o r.res.err))
                     /\ ipc' = "returned"
    /\ UNCHANGED << mainFrame, exitCode, spawned, envVars, version, calls, callPath, resource,
                    events, delivered, wpc, wres, zidx, zipWrites, cacheRes, launchRes >>

\* main.rs:94  emit "Setting up updates..." 90
EmitUpdates ==
    /\ InGui /\ ipc = "emit_updates"
    /\ \E reached \in BOOLEAN : Emit("Setting up updates...", 90, reached)
    /\ ipc' = "cache"
    /\ UNCHANGED << mainFrame, exitCode, fs, spawned, envVars, version, calls, callPath, resource,
                    result, wpc, wres, zidx, zipWrites, shortcutOps, cacheRes, launchRes >>

CacheDir == << "AppData", "mangyomi", "update-cache" >>

\* main.rs:171-204  cache_for_differential_updates: its result, the files and
\* the version after it
RecordVersion(files, ip, appd, mk, readable, old) ==
    IF ~appd THEN [res |-> Err(<< "APPDATA not found" >>), fs |-> files, version |-> old]
    ELSE IF ~mk THEN [res |-> Err(<< "io" >>), fs |-> files, version |-> old]
    ELSE [res |-> Ok, fs |-> MkdirAll(files, CacheDir),
          version |-> ReadVersion(MkdirAll(files, CacheDir), PathOf(ip), readable)]

\* mutant of AfterCache: the recorder's error is propagated with `?`
AfterCacheStrict(r) == IF r.ok THEN "emit_done" ELSE "returned"

\* main.rs:95  what install_app makes of the recorder's result: `.ok()` drops it
AfterCache(r) == "emit_done"

\* main.rs:95  cache_for_differential_updates(..).ok()
CacheForUpdates ==
    /\ InGui /\ ipc = "cache"
    /\ \E mk \in BOOLEAN, readable \in BOOLEAN :
         LET r == RecordVersion(fs, callPath, appdata, mk, readable, version)
         IN  /\ fs' = r.fs
             /\ version' = r.version
             /\ cacheRes' = Some(r.res)
             /\ ipc' = AfterCache(r.res)
             /\ result' = IF AfterCache(r.res) = "returned" THEN Some(r.res) ELSE result
    /\ UNCHANGED << mainFrame, exitCode, spawned, envVars, calls, callPath, resource,
                    events, delivered, wpc, wres, zidx, zipWrites, shortcutOps, launchRes >>

\* mutant of EmitDone: Ok(()) is returned without the last event
EmitDoneQuiet ==
    /\ InGui /\ ipc = "emit_done"
    /\ result' = Some(Ok)
    /\ ipc' = "returned"
    /\ UNCHANGED << mainFrame, exitCode, fs, spawned, envVars, version, calls, callPath, resource,
                    events, delivered, wpc, wres, zidx, zipWrites, shortcutOps, cacheRes, launchRes >>

\* main.rs:97-99  emit "Done!" 100 and return Ok(())
EmitDone ==
    /\ InGui /\ ipc = "emit_done"
    /\ \E reached \in BOOLEAN : Emit("Done!", 100, reached)
    /\ result' = Some(Ok)
    /\ ipc' = "returned"
    /\ UNCHANGED << mainFrame, exitCode, fs, spawned, envVars, version, calls, callPath, resource,
                    wpc, wres, zidx, zipWrites, shortcutOps, cacheRes, launchRes >>

\* mutant of LaunchApp: after a successful spawn the command returns Ok(())
\* and the installer keeps running
LaunchAppLinger ==
    /\ InGui /\ ipc \in { "idle", "returned" }
    /\ \E exe \in { Append(PathOf(p), ExeName) : p \in InstallPaths }, ok \in BOOLEAN :
         /\ ok => Exists(fs, exe)
         /\ spawned' = IF ok THEN spawned \cup { exe } ELSE spawned
         /\ launchRes' = IF ok THEN Some(Ok) ELSE Some(Err(<< "spawn" >>))
         /\ UNCHANGED exitCode
    /\ UNCHANGED << mainFrame, fs, envVars, version, calls, ipc, callPath, resource,
                    events, delivered, result, wpc, wres, zidx, zipWrites, shortcutOps, cacheRes >>

\* main.rs:46-52  launch_app(exe_path): spawn, then exit(0); Err if the spawn
\* fails.  The front end offers the launch while no install is in flight.
LaunchApp ==
    /\ InGui /\ ipc \in { "idle", "returned" }
    /\ \E exe \in { Append(PathOf(p), ExeName) : p \in InstallPaths }, ok \in BOOLEAN :
         /\ ok => Exists(fs, exe)
         /\ IF ok
            THEN /\ spawned' = spawned \cup { exe }
                 /\ exitCode' = Some(0)
                 /\ launchRes' = None
            ELSE /\ launchRes' = Some(Err(<< "spawn" >>))
                 /\ UNCHANGED << spawned, exitCode >>
    /\ UNCHANGED << mainFrame, fs, envVars, version, calls, ipc, callPath, resource,
                    events, delivered, result, wpc, wres, zidx, zipWrites, shortcutOps, cacheRes >>

NextGui ==
    \/ InvokeInstall
    \/ Discover
    \/ InstallCreateDir
    \/ EmitExtracting
    \/ SpawnWorker
    \/ Worker7z
    \/ WorkerZipOpen
    \/ WorkerZipEntry
    \/ WorkerPanic
    \/ Join86
    \/ EmitShortcuts
    \/ CreateShortcuts
    \/ EmitUpdates
    \/ CacheForUpdates
    \/ EmitDone
    \/ LaunchApp

NextMain ==
    \/ ParseArguments
    \/ SilentWait
    \/ SilentCreateDir
    \/ SilentFindPayload
    \/ SilentExtract
    \/ SilentCache
    \/ SilentLaunch
    \/ RunShell

InitProcess ==
    /\ mpc = "start"
    /\ SFX_PATH = None
    /\ silent_mode = FALSE
    /\ install_path = None
    /\ exitCode = None
    /\ mainOps = << >>
    /\ fs = {}
    /\ spawned = {}
    /\ version = << >>
    /\ calls = 0
    /\ ipc = "idle"
    /\ callPath = ""
    /\ resource = None
    /\ events = << >>
    /\ delivered = 0
    /\ result = None
    /\ wpc = "none"
    /\ wres = Ok
    /\ zidx = 0
    /\ zipWrites = {}
    /\ shortcutOps = << >>
    /\ cacheRes = None
    /\ launchRes = None

\* every argument vector; the silent branch reads app.7z only
InitMain ==
    /\ InitProcess
    /\ args \in ArgLists
    /\ payload7z \in Payloads7z
    /\ payloadZip = None
    /\ appdata = TRUE

SpecMain == InitMain /\ [][NextMain]_vars

\* the whole program, started interactively or as a silent update
Init ==
    /\ InitProcess
    /\ args \in { << >>, << "--silent", "--install-path", "Out" >> }
    /\ payload7z \in Payloads7z
    /\ payloadZip \in PayloadsZip
    /\ appdata \in BOOLEAN

Next == NextMain \/ NextGui

Spec == Init /\ [][Next]_vars

\* main() is sequential code and each of its steps ends: it keeps going
SpecMainFair == InitMain /\ [][NextMain]_vars /\ WF_vars(NextMain)

\* ------------------------------------------------------------------ claims

FullEvents ==
    << [status |-> "Extracting files...", percent |-> 10],
       [status |-> "Creating shortcuts...", percent |-> 80],
       [status |-> "Setting up updates...", percent |-> 90],
       [status |-> "Done!", percent |-> 100] >>

Returned == ipc = "returned" /\ result # None
Succeeded == Returned /\ result[1].ok
InstalledExe == Append(PathOf(callPath), ExeName)

\* C1: an install call that returned success emitted exactly the four events
\* (Extracting files..., 10), (Creating shortcuts..., 80), (Setting up
\* updates..., 90), (Done!, 100), in that order and nothing else.
C1_SuccessEmitsTheFourEvents == Succeeded => events = FullEvents

C1_Witness == Succeeded /\ Len(events) = 4

\* C2: at every point of every install call, successful or failing, the
\* events emitted so far are a prefix of the four, so their percents are a
\* prefix of 10, 80, 90, 100: strictly increasing, none twice.
C2_EventsArePrefix ==
    /\ Len(events) <= Len(FullEvents)
    /\ \A i \in 1..Len(events) : events[i] = FullEvents[i]
    /\ \A i, j \in 1..Len(events) : i < j => events[i].percent < events[j].percent

C2_Witness == Returned /\ ~result[1].ok /\ Len(events) = 2

\* C3: every path that zip extraction creates or writes lies inside the
\* destination directory, whatever the entry names are.
C3_ZipStaysInsideDestination ==
    \A p \in zipWrites : IsInside(p, PathOf(callPath))

\* C4: with neither app.7z nor app.zip on disk, install fails with the
\* payload-not-found error at discovery: no event is emitted, no extraction
\* is attempted and nothing is written into the install directory.
C4_MissingPayloadFailsAtDiscovery ==
    (payload7z = None /\ payloadZip = None /\ ipc # "idle") =>
        /\ ipc \in { "discover", "returned" }
        /\ Returned => result[1] = Err(NotFound)
        /\ events = << >>
        /\ wpc = "none"
        /\ \A p \in fs : ~IsInside(p, PathOf(callPath))

LnkFailed ==
    \E i \in 1..Len(shortcutOps) :
        shortcutOps[i].op = "create_lnk" /\ shortcutOps[i].outcome # "saved"

\* C5: when a shortcut creation did not produce the shortcut, install returns
\* an error and neither Setting up updates... (90) nor Done! (100) is emitted.
C5_ShortcutFailureAbortsInstall ==
    LnkFailed =>
        /\ \A i \in 1..Len(events) : events[i].percent < 90
        /\ ipc = "returned" /\ ~result[1].ok

\* the call has been through shortcut registration and went on
PastShortcuts ==
    \/ ipc \in { "emit_updates", "cache", "emit_done" }
    \/ Returned /\ wpc = "joined" /\ wres.ok

\* C6: with Mangyomi.exe absent after extraction, shortcut registration does
\* nothing (no start-menu directory, no shell call) and returns success, and
\* the install call ends in success with the four events.
C6_AbsentExeIsNoOp ==
    (PastShortcuts /\ ~Exists(fs, InstalledExe)) =>
        /\ shortcutOps = << >>
        /\ ~Exists(fs, StartMenuDir(appdata))
        /\ DesktopLnk \notin fs
        /\ Returned => result[1] = Ok /\ events = FullEvents

C6_Witness == Succeeded /\ ~Exists(fs, InstalledExe) /\ events = FullEvents

\* C7: once extraction and shortcut registration have succeeded, the outcome
\* of version recording does not matter: Done! (100) follows Setting up
\* updates... (90) and install returns success.
C7_RecordingNeverFailsInstall ==
    cacheRes # None =>
        /\ ipc \in { "emit_done", "returned" }
        /\ SubSeq(events, 1, 3) = SubSeq(FullEvents, 1, 3)
        /\ ipc = "returned" => result = Some(Ok) /\ events = FullEvents

C7_Witness == Succeeded /\ cacheRes # None /\ ~cacheRes[1].ok

HasSilent(a) == \E i \in 1..Len(a) : a[i] = "--silent"
HasInstallPathValue(a) == \E i \in 1..Len(a) : a[i] = "--install-path" /\ i < Len(a)
SilentWanted == HasSilent(args) /\ HasInstallPathValue(args)

SilentOps == { "sleep", "create_dir_all", "current_exe", "payload_exists",
               "decompress", "cache", "spawn" }
OpsDone == { mainOps[i].op : i \in 1..Len(mainOps) }
OpFailed(name) == \E i \in 1..Len(mainOps) : mainOps[i] = Op(name, FALSE)
SilentRun == mainOps # << >> /\ mainOps[1].op = "sleep"

C8_OnePath ==
    /\ SilentWanted => "run_shell" \notin OpsDone /\ mpc \notin { "run_shell", "gui" }
    /\ ~SilentWanted => OpsDone \cap SilentOps = {} /\ fs = {} /\ spawned = {}
    /\ mpc = "exited" <=> exitCode # None

\* C8: the silent path runs exactly when --silent is present and
\* --install-path is followed by a value; it then ends the process with an
\* exit code and never starts the graphical shell; for every other argument
\* list the shell is started and no silent install step is performed.
C8_ExactlyOnePath ==
    /\ []C8_OnePath
    /\ SilentWanted ~> (exitCode # None /\ SilentRun)
    /\ ~SilentWanted ~> ("run_shell" \in OpsDone)

C8_Witness == SilentWanted /\ exitCode = Some(0) /\ SilentRun

SilentFailure ==
    OpFailed("create_dir_all") \/ OpFailed("payload_exists") \/ OpFailed("decompress")

\* what C9 says of a finished silent run beside the exit code itself
C9_LaunchRules ==
    /\ Op("decompress", TRUE) \in { mainOps[i] : i \in 1..Len(mainOps) } =>
          /\ exitCode = Some(0)
          /\ "spawn" \in OpsDone <=> Exists(fs, Append(PathOf(install_path[1]), ExeName))
    /\ exitCode # Some(0) =>
          /\ "spawn" \notin OpsDone /\ spawned = {}
          /\ shortcutOps = << >>
          /\ DesktopLnk \notin fs /\ StartMenuLnk(appdata) \notin fs

C10_WaitComesFirst ==
    /\ mpc \in { "create_dir", "find_payload", "extract", "cache", "launch" } => SilentRun
    /\ \A i \in 1..Len(mainOps) :
          mainOps[i].op \in SilentOps \ { "sleep" } => i > 1 /\ mainOps[1].op = "sleep"
    /\ (fs # {} \/ spawned # {}) => SilentRun
    /\ (silent_mode /\ install_path # None /\ mpc \notin { "start", "sleep" }) => SilentRun

C10_Witness == SilentRun /\ "decompress" \in OpsDone /\ fs # {}

\* C11 as amended: launch_app ends the installer process (exit 0) exactly
\* when the spawn succeeded; when the executable cannot be spawned it
\* returns the error to its caller, nothing is started and the process runs on.
C11_LaunchExitsOnlyAfterSpawn ==
    mpc = "gui" =>
        /\ spawned # {} => exitCode = Some(0)
        /\ launchRes # None => ~launchRes[1].ok /\ exitCode = None /\ spawned = {}
        /\ exitCode # None => spawned # {} /\ launchRes = None

C11_Witness == mpc = "gui" /\ launchRes # None /\ exitCode = None

\* C11 as stated: launch_app never returns to its caller, whatever exePath is.
C11_LaunchNeverReturns == launchRes = None

\* a silent run that extracted and went on to exit(0)
SilentSuccess == mpc = "exited" /\ SilentRun /\ exitCode = Some(0)

\* what the interactive discovery selects for the payloads on disk
InteractiveChoice ==
    SelectPayload(Resolve(Path7z, TRUE), Resolve(PathZip, TRUE), payload7z).sel[1]

\* the install directory after app.7z was extracted into it
TreeOf7z(ip) == Decompressed(MkdirAll({}, PathOf(ip)), PathOf(ip), payload7z[1].files)

InstallTree(ip) == { p \in fs : p = PathOf(ip) \/ IsInside(p, PathOf(ip)) }

PopulatedTree == { << "Out" >>, << "Out", ExeName >>, << "Out", VersionTxt >> }

\* the program started on a machine where an earlier install populated the
\* install directory
InitRerun ==
    /\ mpc = "start" /\ SFX_PATH = None /\ silent_mode = FALSE /\ install_path = None
    /\ exitCode = None /\ mainOps = << >> /\ spawned = {} /\ version = << >>
    /\ calls = 0 /\ ipc = "idle" /\ callPath = "" /\ resource = None
    /\ events = << >> /\ delivered = 0 /\ result = None
    /\ wpc = "none" /\ wres = Ok /\ zidx = 0 /\ zipWrites = {}
    /\ shortcutOps = << >> /\ cacheRes = None /\ launchRes = None
    /\ fs = PopulatedTree
    /\ args \in { << >>, << "--silent", "--install-path", "Out" >> }
    /\ payload7z \in Payloads7z
    /\ payloadZip \in PayloadsZip
    /\ appdata \in BOOLEAN

SpecRerun == InitRerun /\ [][Next]_vars

\* C13: on an install path that an earlier install created and populated,
\* directory provisioning can succeed again, in install_app and in the
\* silent branch alike, and a call whose later steps succeed emits the four
\* events and returns success.
C13_RerunPassesProvisioning ==
    /\ (InGui /\ ipc = "create_dir" /\ Exists(fs, PathOf(callPath))) =>
          ENABLED (InstallCreateDir /\ ipc' = "emit_extracting")
    /\ (Running /\ mpc = "create_dir" /\ Exists(fs, PathOf(install_path[1]))) =>
          ENABLED (SilentCreateDir /\ mpc' = "find_payload")
    /\ Succeeded => events = FullEvents /\ PopulatedTree \subseteq fs

C13_Witness == Succeeded /\ events = FullEvents /\ PopulatedTree \subseteq fs /\ calls = 1

BigEnough == payload7z # None /\ payload7z[1].size > MinPayloadSize

\* C14: discovery selects app.7z exactly when it exists with a size strictly
\* above the threshold and app.zip otherwise; it fails with the
\* payload-not-found error, before any event, exactly when nothing was
\* selected; and only the extractor of the selected kind runs.
C14_SelectionByExistenceAndSize ==
    /\ resource # None =>
          /\ resource[1].is_7z <=> BigEnough
          /\ resource[1].path = IF BigEnough THEN Path7z ELSE PathZip
    /\ (ipc \notin { "idle", "discover" } /\ resource = None) =>
          /\ Returned /\ result[1] = Err(NotFound)
          /\ events = << >> /\ wpc = "none"
    /\ (Returned /\ result[1] = Err(NotFound)) => resource = None
    /\ (wpc = "entries" \/ zidx > 0 \/ zipWrites # {}) => ~resource[1].is_7z
    /\ (wpc \in { "finished", "joined" } /\ ~wres.ok) =>
          wres.err[1] = (IF resource[1].is_7z THEN "7z extraction failed for"
                         ELSE "Zip extraction failed for")

C14_Witness ==
    /\ payload7z # None /\ payload7z[1].size = MinPayloadSize
    /\ resource # None /\ ~resource[1].is_7z /\ wpc = "entries"

Range(q) == { q[k] : k \in 1..Len(q) }

ExtractionFailed == wpc \in { "finished", "joined" } /\ ~wres.ok

\* C15: when the extractor of either kind reports a failure (for the zip
\* kind also a failure on one entry, after which no later entry is
\* touched), install_app returns that error, which names the archive path;
\* the only event emitted is (Extracting files..., 10), and neither shortcut
\* registration nor version recording runs.  A zip install that succeeded
\* extracted every entry.
C15_ExtractionFailureAborts ==
    /\ ExtractionFailed =>
          /\ resource[1].path \in Range(wres.err)
          /\ events = SubSeq(FullEvents, 1, 1)
          /\ shortcutOps = << >> /\ cacheRes = None
          /\ IF wpc = "joined" THEN Returned /\ result = Some(wres)
                               ELSE ipc = "await" /\ result = None
    /\ \A p \in zipWrites :
          \E k \in 1..zidx :
             p \in Ancestors(Normalize(Join(PathOf(callPath), payloadZip[1].entries[k])))
    /\ (Succeeded /\ ~resource[1].is_7z) =>
          \A k \in 1..Len(payloadZip[1].entries) :
             Exists(fs, Join(PathOf(callPath), payloadZip[1].entries[k]))

C15_Witness ==
    /\ Returned /\ ExtractionFailed /\ ~resource[1].is_7z
    /\ zidx = 1 /\ Len(payloadZip[1].entries) = 2

WorkerBusy == wpc \in { "run", "entries" }

\* C16: while the worker runs install_app stays at the await: the 80 event
\* and shortcut registration happen only after a worker that returned Ok was
\* joined, and a worker that returned an error or panicked makes install_app
\* return an error.
C16_InstallWaitsForWorker ==
    /\ WorkerBusy => ipc = "await" /\ Len(events) = 1 /\ shortcutOps = << >>
    /\ wpc = "finished" => ipc = "await" /\ Len(events) = 1 /\ shortcutOps = << >>
    /\ (Len(events) >= 2 \/ shortcutOps # << >>) => wpc = "joined" /\ wres.ok
    /\ (wpc = "panicked" /\ ipc # "await") => Returned /\ ~result[1].ok
    /\ (wpc = "panicked" /\ ipc = "await") => Len(events) = 1 /\ result = None
    /\ (wpc = "joined" /\ ~wres.ok) => Returned /\ ~result[1].ok

C16_Witness == wpc = "panicked" /\ Returned /\ ~result[1].ok /\ Len(events) = 1

EmitPoints == { "emit_extracting", "emit_shortcuts", "emit_updates", "emit_done" }

AfterEmit(p) ==
    CASE p = "emit_extracting" -> "spawn"
      [] p = "emit_shortcuts" -> "shortcuts"
      [] p = "emit_updates" -> "cache"
      [] p = "emit_done" -> "returned"

EmitStep == EmitExtracting \/ EmitShortcuts \/ EmitUpdates \/ EmitDone

\* at an emit both outcomes are possible: the event reaches the front end,
\* or it does not
EitherDelivery ==
    (InGui /\ ipc \in EmitPoints) =>
        /\ ENABLED (EmitStep /\ delivered' = delivered)
        /\ ENABLED (EmitStep /\ delivered' = delivered + 1)

\* C17: at every emit the event may or may not reach the front end, and in
\* both cases install_app takes the same next step with the same result:
\* only the delivery count differs, nothing else of the state depends on it.
C17_EmitIsFireAndForget ==
    /\ []EitherDelivery
    /\ [][ (ipc \in EmitPoints /\ ipc' # ipc) =>
             /\ events' = Append(events, FullEvents[Len(events) + 1])
             /\ delivered' \in { delivered, delivered + 1 }
             /\ ipc' = AfterEmit(ipc)
             /\ result' = IF ipc = "emit_done" THEN Some(Ok) ELSE result
             /\ UNCHANGED << mainFrame, exitCode, fs, spawned, envVars, version, calls,
                             callPath, resource, wpc, wres, zidx, zipWrites,
                             shortcutOps, cacheRes, launchRes >> ]_vars

C17_Witness == Succeeded /\ events = FullEvents /\ delivered = 0

HasLnkOp(lnk) ==
    \E i \in 1..Len(shortcutOps) :
        shortcutOps[i].op = "create_lnk" /\ shortcutOps[i].lnk = lnk

\* C18: when the executable exists, a call of create_shortcuts attempts the
\* desktop and the start-menu shortcut, also when the first creation fails,
\* and when either creation fails install_app returns the error.
C18_BothShortcutsAttempted ==
    shortcutOps # << >> =>
        /\ HasLnkOp(DesktopLnk) /\ HasLnkOp(StartMenuLnk(appdata))
        /\ LnkFailed => Returned /\ ~result[1].ok

Count(name) == Cardinality({ i \in 1..Len(mainOps) : mainOps[i].op = name })

\* C19: in one process the silent branch waits once, creates the directory
\* at most once and extracts at most once; a failure of either is the last
\* thing it does before exit(1): it is not retried, nothing waits again and
\* nothing is launched.
C19_SilentSingleAttempt ==
    /\ \A name \in { "sleep", "create_dir_all", "decompress" } : Count(name) <= 1
    /\ \A name \in { "create_dir_all", "decompress" } :
          OpFailed(name) =>
             /\ mainOps[Len(mainOps)] = Op(name, FALSE)
             /\ mpc = "exited" /\ exitCode = Some(1)
             /\ "spawn" \notin OpsDone /\ spawned = {}

C19_Witness == OpFailed("decompress") /\ exitCode = Some(1) /\ Count("create_dir_all") = 1

ValueIdx(flag) == { i \in 1..(Len(args) - 1) : args[i] = flag }

\* the value after the last occurrence of the flag that has one
LastValue(flag) ==
    IF ValueIdx(flag) = {} THEN None
    ELSE Some(args[1 + CHOOSE i \in ValueIdx(flag) : \A j \in ValueIdx(flag) : j <= i])

=============================================================================
